---- MODULE Spec2Model ----
(***************************************************************************)
(* gu-map: a Map wrapped in a Proxy that supports dot notation and         *)
(* immutability (createGuMap in src/gu-map.js, normalizeConfig in          *)
(* gu-map-config.js).                                                      *)
(*                                                                         *)
(* The container is the insertion-ordered sequence of entries of the       *)
(* internal Map; the policy is the frozen config record.  Every operation  *)
(* of the proxy is one action.  Besides the program's state the model      *)
(* records the last call, what the operation did (returned or threw), what *)
(* a strict-mode caller observes, and the container before the call.       *)
(*                                                                         *)
(* Spec is the proxy under direct calls.  SpecRoundTrip logs the accepted  *)
(* writes of a proxy created empty, SpecForEach runs forEach with          *)
(* callbacks that act through their third argument, SpecOwnKeys adds a key *)
(* that is no property key, SpecClass is the GuMap class, and SpecFalsy    *)
(* stores falsy values.                                                    *)
(***************************************************************************)
EXTENDS Integers, Sequences, FiniteSets, TLC

VARIABLES
  map,      \* the internal Map: a sequence of [key, value] entries, insertion order
  config,   \* the frozen, normalized configuration
  call,     \* the last call made on the proxy
  outcome,  \* what the trap or bridge function did: returned a value or threw
  seen,     \* what the calling expression does in strict-mode (ES module) code
  before,   \* the internal Map as it was before the last call
  proto,    \* the prototype of the proxy's target
  iter,     \* the forEach in progress: entries passed and callbacks invoked
  written   \* the writes accepted so far by a proxy that is being logged

vars == <<map, config, call, outcome, seen, before, proto, iter, written>>

----------------------------------------------------------------------------
(* Bounds of the model *)

\* Longest iterable handed to createGuMap.
MaxInit == 2
\* Largest number stored as a value.
MaxValue == 1
\* Longest log of accepted writes in SpecRoundTrip.
MaxWrites == 3
\* Most callback invocations of one forEach in SpecForEach.
MaxVisits == 3

----------------------------------------------------------------------------
(* JavaScript values *)

Undefined == [t |-> "undefined"]
Bool(b) == [t |-> "boolean", b |-> b]
Num(n) == [t |-> "number", n |-> n]
Str(s) == [t |-> "string", s |-> s]
\* A function or accessor result taken from the bridge object.
Fn(name) == [t |-> "function", bridge |-> name]

\* Boolean(x): undefined, false, 0 and "" are falsy.
Boolean(x) ==
  CASE x.t = "undefined" -> FALSE
    [] x.t = "boolean" -> x.b
    [] x.t = "number" -> x.n # 0
    [] x.t = "string" -> x.s # ""
    [] OTHER -> TRUE

\* The well-known symbols, written as distinguished keys.
SymbolIterator == "@@iterator"
SymbolToStringTag == "@@toStringTag"

\* The number 1 as a Map key.  It is no property key: proxy[1] is proxy["1"].
NumberKey == "#1"

\* String(key) in the error messages.
String(key) ==
  CASE key = SymbolIterator -> "Symbol(Symbol.iterator)"
    [] key = NumberKey -> "1"
    [] key = SymbolToStringTag -> "Symbol(Symbol.toStringTag)"
    [] OTHER -> key

----------------------------------------------------------------------------
(* Inputs *)

\* Keys that are no bridge names.
UserKeys == {"a", "b"}
\* Keys the operations are called with.
OpKeys == UserKeys \cup {"size", SymbolIterator}
\* Keys of the entries handed to createGuMap.
InitKeys == UserKeys \cup {"size"}
\* Values stored in the container.
Values == {Undefined} \cup {Num(n) : n \in 1..MaxValue}
\* Values of a flag in the options object (Undefined: the field is absent).
RawFlags == {Undefined, Bool(FALSE), Bool(TRUE), Num(1), Str("")}
\* The options argument: absent, or an object.
OptionsArgs ==
  {Undefined} \cup
  [immutableMap : RawFlags, immutableProperties : RawFlags,
   throwErrorOnPropertyMutate : RawFlags,
   throwErrorOnNonexistentProperty : RawFlags]
\* The prototypes handed to Object.setPrototypeOf.
NewPrototypes == {"null", "Object.prototype"}
\* The iterable argument: a sequence of [key, value] pairs.
Iterables ==
  UNION {[1..n -> [key : InitKeys, value : Values]] : n \in 0..MaxInit}

----------------------------------------------------------------------------
(* The built-in Map, as a sequence of entries with distinct keys *)

MapKeys(m) == [i \in 1..Len(m) |-> m[i].key]
MapValues(m) == [i \in 1..Len(m) |-> m[i].value]
MapHas(m, key) == \E i \in 1..Len(m) : m[i].key = key
MapIndex(m, key) == CHOOSE i \in 1..Len(m) : m[i].key = key
MapGet(m, key) == IF MapHas(m, key) THEN m[MapIndex(m, key)].value ELSE Undefined
\* Map.prototype.set: an existing key keeps its position, a new key is appended.
MapSet(m, key, value) ==
  IF MapHas(m, key)
  THEN [m EXCEPT ![MapIndex(m, key)].value = value]
  ELSE Append(m, [key |-> key, value |-> value])
\* Map.prototype.delete: the entry is removed, the others keep their order.
MapDelete(m, key) ==
  IF MapHas(m, key)
  THEN LET i == MapIndex(m, key)
       IN  SubSeq(m, 1, i - 1) \o SubSeq(m, i + 1, Len(m))
  ELSE m
MapClear(m) == <<>>
\* new Map(iterable): the entries are set one after the other.
RECURSIVE NewMapFrom(_, _)
NewMapFrom(m, iterable) ==
  IF iterable = <<>> THEN m
  ELSE NewMapFrom(MapSet(m, Head(iterable).key, Head(iterable).value), Tail(iterable))
NewMap(iterable) == NewMapFrom(<<>>, iterable)

----------------------------------------------------------------------------
(* gu-map-config.js *)

\* options?.field
OptionOf(options, field) ==
  IF options = Undefined THEN Undefined ELSE options[field]

\* normalizeConfig with immutableProperties taken from its own option alone.
normalizeConfig_ownFlagOnly(options) ==
  [immutableMap |-> Boolean(OptionOf(options, "immutableMap")),
   immutableProperties |-> Boolean(OptionOf(options, "immutableProperties")),
   throwErrorOnPropertyMutate |->
     Boolean(OptionOf(options, "throwErrorOnPropertyMutate")),
   throwErrorOnNonexistentProperty |->
     Boolean(OptionOf(options, "throwErrorOnNonexistentProperty"))]

normalizeConfig(options) ==
  LET immutableMap == Boolean(OptionOf(options, "immutableMap"))
  IN  [immutableMap |-> immutableMap,
       immutableProperties |->
         immutableMap \/ Boolean(OptionOf(options, "immutableProperties")),
       throwErrorOnPropertyMutate |->
         Boolean(OptionOf(options, "throwErrorOnPropertyMutate")),
       throwErrorOnNonexistentProperty |->
         Boolean(OptionOf(options, "throwErrorOnNonexistentProperty"))]

----------------------------------------------------------------------------
(* gu-map.js: bridge keys and error messages *)

BRIDGE_KEYS ==
  {"clear", "delete", "entries", "forEach", "get", "has",
   "keys", "set", "size", "values", SymbolIterator, SymbolToStringTag}

isBridgeKey(key) == key \in BRIDGE_KEYS

\* The parts of an error message (createErrorHelpers).
errors_base == [text |-> "GuMap Error:"]
errors_immutable ==
  [text |-> IF config.immutableMap THEN " Map is immutable."
            ELSE " Properties are immutable."]
errors_prop(verb, key) ==
  [text |-> " Cannot <verb> property <key>.", verb |-> verb, key |-> String(key)]
errors_nonexistent(key) ==
  [text |-> " Property <key> does not exist.", key |-> String(key)]

\* What an operation does: it returns a value or throws.
Return(v) == [kind |-> "return", value |-> v]
Throw(e) == [kind |-> "throw", error |-> e]
\* new Error(message), the message as the sequence of its parts.
Error(message) == [name |-> "Error", message |-> message]
\* The TypeError of strict-mode code when a set or deleteProperty trap returns false.
TypeError(trap, key) == [name |-> "TypeError", trap |-> trap, key |-> key]

----------------------------------------------------------------------------
(* gu-map.js: createOperations *)

\* bridge[key]: the bridge's functions, its size accessor and its string tag.
bridge(key) ==
  CASE key = "size" -> Num(Len(map))
    [] key = SymbolToStringTag -> Str("GuMap")
    [] OTHER -> Fn(key)

\* doGet that takes a falsy stored value for a missing key.
doGet_testsValue(key) ==
  IF isBridgeKey(key) THEN Return(bridge(key))
  ELSE IF ~Boolean(MapGet(map, key)) /\ config.throwErrorOnNonexistentProperty
  THEN Throw(Error(<<errors_base, errors_nonexistent(key), errors_prop("get", key)>>))
  ELSE Return(MapGet(map, key))

\* doGet that throws for every key once throwErrorOnNonexistentProperty is set.
doGet_throwsWhenPresent(key) ==
  IF isBridgeKey(key) THEN Return(bridge(key))
  ELSE IF config.throwErrorOnNonexistentProperty
  THEN Throw(Error(<<errors_base, errors_nonexistent(key), errors_prop("get", key)>>))
  ELSE Return(MapGet(map, key))

doGet(key) ==
  IF isBridgeKey(key) THEN Return(bridge(key))
  ELSE IF ~MapHas(map, key) /\ config.throwErrorOnNonexistentProperty
  THEN Throw(Error(<<errors_base, errors_nonexistent(key), errors_prop("get", key)>>))
  ELSE Return(MapGet(map, key))

\* doSet without the immutableMap test.
doSet_noImmutableMap(key, value) ==
  IF isBridgeKey(key) \/ (config.immutableProperties /\ MapHas(map, key))
  THEN [outcome |->
          IF config.throwErrorOnPropertyMutate
          THEN Throw(Error(<<errors_base, errors_immutable, errors_prop("set", key)>>))
          ELSE Return(Bool(FALSE)),
        map |-> map]
  ELSE [outcome |-> Return(Bool(TRUE)), map |-> MapSet(map, key, value)]

\* doSet without the test for an existing key under immutableProperties.
doSet_noExistingKeyTest(key, value) ==
  IF isBridgeKey(key) \/ config.immutableMap
  THEN [outcome |->
          IF config.throwErrorOnPropertyMutate
          THEN Throw(Error(<<errors_base, errors_immutable, errors_prop("set", key)>>))
          ELSE Return(Bool(FALSE)),
        map |-> map]
  ELSE [outcome |-> Return(Bool(TRUE)), map |-> MapSet(map, key, value)]

\* doSet without the bridge-key branch.
doSet_noBridgeBranch(key, value) ==
  IF config.immutableMap \/ (config.immutableProperties /\ MapHas(map, key))
  THEN [outcome |->
          IF config.throwErrorOnPropertyMutate
          THEN Throw(Error(<<errors_base, errors_immutable, errors_prop("set", key)>>))
          ELSE Return(Bool(FALSE)),
        map |-> map]
  ELSE [outcome |-> Return(Bool(TRUE)), map |-> MapSet(map, key, value)]

\* doSet that returns false after storing the value.
doSet_returnsFalse(key, value) ==
  IF isBridgeKey(key) \/ config.immutableMap
       \/ (config.immutableProperties /\ MapHas(map, key))
  THEN [outcome |->
          IF config.throwErrorOnPropertyMutate
          THEN Throw(Error(<<errors_base, errors_immutable, errors_prop("set", key)>>))
          ELSE Return(Bool(FALSE)),
        map |-> map]
  ELSE [outcome |-> Return(Bool(FALSE)), map |-> MapSet(map, key, value)]

\* doSet that stores the value only under a key the Map does not hold yet.
doSet_keepsExisting(key, value) ==
  IF isBridgeKey(key) \/ config.immutableMap
       \/ (config.immutableProperties /\ MapHas(map, key))
  THEN [outcome |->
          IF config.throwErrorOnPropertyMutate
          THEN Throw(Error(<<errors_base, errors_immutable, errors_prop("set", key)>>))
          ELSE Return(Bool(FALSE)),
        map |-> map]
  ELSE [outcome |-> Return(Bool(TRUE)),
        map |-> IF MapHas(map, key) THEN map ELSE MapSet(map, key, value)]

\* doSet, doDelete: what the call does and the Map it leaves.
doSet(key, value) ==
  IF isBridgeKey(key)
  THEN [outcome |->
          IF config.throwErrorOnPropertyMutate
          THEN Throw(Error(<<errors_base, errors_immutable, errors_prop("set", key)>>))
          ELSE Return(Bool(FALSE)),
        map |-> map]
  ELSE IF config.immutableMap \/ (config.immutableProperties /\ MapHas(map, key))
  THEN [outcome |->
          IF config.throwErrorOnPropertyMutate
          THEN Throw(Error(<<errors_base, errors_immutable, errors_prop("set", key)>>))
          ELSE Return(Bool(FALSE)),
        map |-> map]
  ELSE [outcome |-> Return(Bool(TRUE)), map |-> MapSet(map, key, value)]

\* doDelete with the missing-key test ahead of the immutability test.
doDelete_missingKeyFirst(key) ==
  IF ~MapHas(map, key) /\ config.throwErrorOnNonexistentProperty
  THEN [outcome |->
          Throw(Error(<<errors_base, errors_nonexistent(key), errors_prop("delete", key)>>)),
        map |-> map]
  ELSE IF config.immutableMap \/ config.immutableProperties
  THEN [outcome |->
          IF config.throwErrorOnPropertyMutate
          THEN Throw(Error(<<errors_base, errors_immutable, errors_prop("delete", key)>>))
          ELSE Return(Bool(FALSE)),
        map |-> map]
  ELSE [outcome |-> Return(Bool(MapHas(map, key))), map |-> MapDelete(map, key)]

\* doDelete without the missing-key test.
doDelete_noMissingKeyTest(key) ==
  IF config.immutableMap \/ config.immutableProperties
  THEN [outcome |->
          IF config.throwErrorOnPropertyMutate
          THEN Throw(Error(<<errors_base, errors_immutable, errors_prop("delete", key)>>))
          ELSE Return(Bool(FALSE)),
        map |-> map]
  ELSE [outcome |-> Return(Bool(MapHas(map, key))), map |-> MapDelete(map, key)]

\* doDelete that throws on an immutable map whatever throwErrorOnPropertyMutate says.
doDelete_alwaysThrows(key) ==
  IF config.immutableMap \/ config.immutableProperties
  THEN [outcome |->
          Throw(Error(<<errors_base, errors_immutable, errors_prop("delete", key)>>)),
        map |-> map]
  ELSE IF ~MapHas(map, key) /\ config.throwErrorOnNonexistentProperty
  THEN [outcome |->
          Throw(Error(<<errors_base, errors_nonexistent(key), errors_prop("delete", key)>>)),
        map |-> map]
  ELSE [outcome |-> Return(Bool(MapHas(map, key))), map |-> MapDelete(map, key)]

\* doDelete that deletes the entry before it tests the policy.
doDelete_deletesFirst(key) ==
  IF config.immutableMap \/ config.immutableProperties
  THEN [outcome |->
          IF config.throwErrorOnPropertyMutate
          THEN Throw(Error(<<errors_base, errors_immutable, errors_prop("delete", key)>>))
          ELSE Return(Bool(FALSE)),
        map |-> MapDelete(map, key)]
  ELSE IF ~MapHas(map, key) /\ config.throwErrorOnNonexistentProperty
  THEN [outcome |->
          Throw(Error(<<errors_base, errors_nonexistent(key), errors_prop("delete", key)>>)),
        map |-> map]
  ELSE [outcome |-> Return(Bool(MapHas(map, key))), map |-> MapDelete(map, key)]

doDelete(key) ==
  IF config.immutableMap \/ config.immutableProperties
  THEN [outcome |->
          IF config.throwErrorOnPropertyMutate
          THEN Throw(Error(<<errors_base, errors_immutable, errors_prop("delete", key)>>))
          ELSE Return(Bool(FALSE)),
        map |-> map]
  ELSE IF ~MapHas(map, key) /\ config.throwErrorOnNonexistentProperty
  THEN [outcome |->
          Throw(Error(<<errors_base, errors_nonexistent(key), errors_prop("delete", key)>>)),
        map |-> map]
  ELSE [outcome |-> Return(Bool(MapHas(map, key))), map |-> MapDelete(map, key)]

doHas(key) ==
  IF isBridgeKey(key) THEN Return(Bool(TRUE)) ELSE Return(Bool(MapHas(map, key)))

----------------------------------------------------------------------------
(* gu-map.js: createBridge *)

bridge_clear == [outcome |-> Return(Undefined), map |-> MapClear(map)]
bridge_delete(key) == doDelete(key)
\* bridge.get that reads the Map directly, as bridge.has does.
bridge_get_direct(key) == Return(MapGet(map, key))
bridge_get(key) == doGet(key)
bridge_has(key) == Return(Bool(MapHas(map, key)))
bridge_set(key, value) == doSet(key, value)

\* A Map iterator, as the sequence it yields when it is consumed at once.
Iterator(yields) == [t |-> "iterator", yields |-> yields]
MapEntries(m) == [i \in 1..Len(m) |-> <<m[i].key, m[i].value>>]
bridge_entries == Return(Iterator(MapEntries(map)))
bridge_keys == Return(Iterator(MapKeys(map)))
bridge_values == Return(Iterator(MapValues(map)))
\* bridge[Symbol.iterator] with an iterator that has passed the first entry.
bridge_iterator_advanced == Return(Iterator(SubSeq(MapEntries(map), 2, Len(map))))
bridge_iterator == Return(Iterator(MapEntries(map)))

\* A setPrototypeOf trap that forwards to the target.
doSetPrototypeOf_forwards(newProto) ==
  [outcome |-> Return(Bool(TRUE)), proto |-> newProto]
\* The setPrototypeOf trap: what it does and the prototype it leaves.
doSetPrototypeOf(newProto) ==
  [outcome |->
     Throw(Error(<<errors_base, [text |-> " The prototype cannot be changed."]>>)),
   proto |-> proto]

\* proxy.name(...): the method is looked up through the get trap.
Method(name) == doGet(name) = Return(Fn(name))

----------------------------------------------------------------------------
(* Strict-mode callers: a set or deleteProperty trap that returns false makes
   the assignment or the delete expression throw a TypeError. *)

\* A set trap whose false is ignored, as in non-strict code.
StrictSet_silent(key, value, out) ==
  IF out.kind = "throw" THEN out ELSE Return(value)

StrictSet(key, value, out) ==
  IF out.kind = "throw" THEN out
  ELSE IF out.value = Bool(FALSE) THEN Throw(TypeError("set", key))
  ELSE Return(value)

StrictDelete(key, out) ==
  IF out.kind = "throw" THEN out
  ELSE IF out.value = Bool(FALSE) THEN Throw(TypeError("deleteProperty", key))
  ELSE Return(Bool(TRUE))

----------------------------------------------------------------------------
(* createGuMap and the operations of the proxy *)

\* new Proxy(map, ...): the target is a Map, so its prototype is Map.prototype.
MapPrototype == "Map.prototype"
\* No forEach is running.
NoForEach == [active |-> FALSE, pos |-> 0, calls |-> <<>>, start |-> <<>>, changed |-> FALSE]
\* The log of accepted writes: kept for a proxy created empty for as long as
\* every call on it is an accepted write or a read.
NotLogged == [logged |-> FALSE, log |-> <<>>]
Logged(key, value, out) ==
  IF written.logged /\ out = Return(Bool(TRUE))
  THEN [written EXCEPT !.log = Append(@, [key |-> key, value |-> value])]
  ELSE NotLogged

Init ==
  \E iterable \in Iterables, options \in OptionsArgs :
    /\ map = NewMap(iterable)
    /\ config = normalizeConfig(options)
    /\ call = [op |-> "createGuMap"]
    /\ outcome = Return(Undefined)
    /\ seen = Return(Undefined)
    /\ before = <<>>
    /\ proto = MapPrototype
    /\ iter = NoForEach
    /\ written = NotLogged

\* A read that stores undefined under a key the Map does not hold.
TrapGet_storesMissingKey(key) ==
  /\ call' = [op |-> "get", style |-> "property", key |-> key]
  /\ outcome' = doGet(key)
  /\ seen' = outcome'
  /\ before' = map
  /\ map' = IF isBridgeKey(key) \/ MapHas(map, key) THEN map
            ELSE MapSet(map, key, Undefined)
  /\ UNCHANGED <<config, proto, iter, written>>

\* proxy[key]
TrapGet(key) ==
  /\ call' = [op |-> "get", style |-> "property", key |-> key]
  /\ outcome' = doGet(key)
  /\ seen' = outcome'
  /\ before' = map
  /\ UNCHANGED <<map, config, proto, iter, written>>

\* proxy[key] = value
TrapSet(key, value) ==
  /\ call' = [op |-> "set", style |-> "property", key |-> key, value |-> value]
  /\ outcome' = doSet(key, value).outcome
  /\ seen' = StrictSet(key, value, outcome')
  /\ map' = doSet(key, value).map
  /\ before' = map
  /\ written' = Logged(key, value, outcome')
  /\ UNCHANGED <<config, proto, iter>>

\* delete proxy[key]
TrapDeleteProperty(key) ==
  /\ call' = [op |-> "delete", style |-> "property", key |-> key]
  /\ outcome' = doDelete(key).outcome
  /\ seen' = StrictDelete(key, outcome')
  /\ map' = doDelete(key).map
  /\ before' = map
  /\ written' = NotLogged
  /\ UNCHANGED <<config, proto, iter>>

\* key in proxy
TrapHas(key) ==
  /\ call' = [op |-> "has", style |-> "property", key |-> key]
  /\ outcome' = doHas(key)
  /\ seen' = outcome'
  /\ before' = map
  /\ UNCHANGED <<map, config, proto, iter, written>>

\* proxy.get(key)
CallGet(key) ==
  /\ Method("get")
  /\ call' = [op |-> "get", style |-> "method", key |-> key]
  /\ outcome' = bridge_get(key)
  /\ seen' = outcome'
  /\ before' = map
  /\ UNCHANGED <<map, config, proto, iter, written>>

\* proxy.set(key, value)
CallSet(key, value) ==
  /\ Method("set")
  /\ call' = [op |-> "set", style |-> "method", key |-> key, value |-> value]
  /\ outcome' = bridge_set(key, value).outcome
  /\ seen' = outcome'
  /\ map' = bridge_set(key, value).map
  /\ before' = map
  /\ written' = Logged(key, value, outcome')
  /\ UNCHANGED <<config, proto, iter>>

\* proxy.delete(key)
CallDelete(key) ==
  /\ Method("delete")
  /\ call' = [op |-> "delete", style |-> "method", key |-> key]
  /\ outcome' = bridge_delete(key).outcome
  /\ seen' = outcome'
  /\ map' = bridge_delete(key).map
  /\ before' = map
  /\ written' = NotLogged
  /\ UNCHANGED <<config, proto, iter>>

\* proxy.has(key)
CallHas(key) ==
  /\ Method("has")
  /\ call' = [op |-> "has", style |-> "method", key |-> key]
  /\ outcome' = bridge_has(key)
  /\ seen' = outcome'
  /\ before' = map
  /\ UNCHANGED <<map, config, proto, iter, written>>

\* proxy.clear()
CallClear ==
  /\ Method("clear")
  /\ call' = [op |-> "clear", style |-> "method"]
  /\ outcome' = bridge_clear.outcome
  /\ seen' = outcome'
  /\ map' = bridge_clear.map
  /\ before' = map
  /\ written' = NotLogged
  /\ UNCHANGED <<config, proto, iter>>

\* proxy.entries()
CallEntries ==
  /\ Method("entries")
  /\ call' = [op |-> "entries", style |-> "method"]
  /\ outcome' = bridge_entries
  /\ seen' = outcome'
  /\ before' = map
  /\ UNCHANGED <<map, config, proto, iter, written>>

\* proxy.keys()
CallKeys ==
  /\ Method("keys")
  /\ call' = [op |-> "keys", style |-> "method"]
  /\ outcome' = bridge_keys
  /\ seen' = outcome'
  /\ before' = map
  /\ UNCHANGED <<map, config, proto, iter, written>>

\* proxy.values()
CallValues ==
  /\ Method("values")
  /\ call' = [op |-> "values", style |-> "method"]
  /\ outcome' = bridge_values
  /\ seen' = outcome'
  /\ before' = map
  /\ UNCHANGED <<map, config, proto, iter, written>>

\* proxy[Symbol.iterator](), as in [...proxy] and for...of
CallIterator ==
  /\ Method(SymbolIterator)
  /\ call' = [op |-> SymbolIterator, style |-> "method"]
  /\ outcome' = bridge_iterator
  /\ seen' = outcome'
  /\ before' = map
  /\ UNCHANGED <<map, config, proto, iter, written>>

\* Object.setPrototypeOf(proxy, newProto)
TrapSetPrototypeOf(newProto) ==
  /\ call' = [op |-> "setPrototypeOf", style |-> "property", proto |-> newProto]
  /\ outcome' = doSetPrototypeOf(newProto).outcome
  /\ seen' = outcome'
  /\ proto' = doSetPrototypeOf(newProto).proto
  /\ before' = map
  /\ UNCHANGED <<map, config, iter, written>>

Next ==
  \/ \E key \in OpKeys : TrapGet(key)
  \/ \E key \in OpKeys, value \in Values : TrapSet(key, value)
  \/ \E key \in OpKeys : TrapDeleteProperty(key)
  \/ \E key \in OpKeys : TrapHas(key)
  \/ \E key \in OpKeys : CallGet(key)
  \/ \E key \in OpKeys, value \in Values : CallSet(key, value)
  \/ \E key \in OpKeys : CallDelete(key)
  \/ \E key \in OpKeys : CallHas(key)
  \/ CallClear
  \/ CallEntries
  \/ CallKeys
  \/ CallValues
  \/ CallIterator
  \/ \E newProto \in NewPrototypes : TrapSetPrototypeOf(newProto)

Spec == Init /\ [][Next]_vars

----------------------------------------------------------------------------
(* A proxy created empty whose accepted writes are logged *)

InitRoundTrip ==
  \E options \in OptionsArgs :
    /\ map = NewMap(<<>>)
    /\ config = normalizeConfig(options)
    /\ call = [op |-> "createGuMap"]
    /\ outcome = Return(Undefined)
    /\ seen = Return(Undefined)
    /\ before = <<>>
    /\ proto = MapPrototype
    /\ iter = NoForEach
    /\ written = [logged |-> TRUE, log |-> <<>>]

RoundTripAssign(key, value) ==
  /\ Len(written.log) < MaxWrites
  /\ TrapSet(key, value)

RoundTripSet(key, value) ==
  /\ Len(written.log) < MaxWrites
  /\ CallSet(key, value)

NextRoundTrip ==
  \/ \E key \in OpKeys, value \in Values : RoundTripAssign(key, value)
  \/ \E key \in OpKeys, value \in Values : RoundTripSet(key, value)
  \/ \E key \in OpKeys : TrapGet(key)
  \/ \E key \in OpKeys : CallGet(key)

SpecRoundTrip == InitRoundTrip /\ [][NextRoundTrip]_vars

----------------------------------------------------------------------------
(* forEach, with callbacks that act through their third argument *)

\* What a callback does with its third argument: nothing, or one call of
\* set, delete or clear on it, on a user key or on a bridge name.
CallbackKeys == {"a", "size"}
CallbackOps ==
  {[op |-> "none"], [op |-> "clear"]}
    \cup [op : {"set"}, key : CallbackKeys, value : Values]
    \cup [op : {"delete"}, key : CallbackKeys]

\* forEach with the internal Map as the callback's third argument.
ForEachThird_internalMap == "map"
\* The third argument of the callback: getProxy().
ForEachThird == "proxy"

\* A call of set, delete or clear on the callback's third argument: on the
\* proxy it goes through the bridge, on a bare Map straight to the Map.
Through(third, cb) ==
  IF third = "proxy"
  THEN CASE cb.op = "set" -> bridge_set(cb.key, cb.value)
         [] cb.op = "delete" -> bridge_delete(cb.key)
         [] cb.op = "clear" -> bridge_clear
         [] OTHER -> [outcome |-> Return(Undefined), map |-> map]
  ELSE CASE cb.op = "set" ->
              [outcome |-> Return([t |-> "object", class |-> "Map"]),
               map |-> MapSet(map, cb.key, cb.value)]
         [] cb.op = "delete" ->
              [outcome |-> Return(Bool(MapHas(map, cb.key))),
               map |-> MapDelete(map, cb.key)]
         [] cb.op = "clear" -> [outcome |-> Return(Undefined), map |-> MapClear(map)]
         [] OTHER -> [outcome |-> Return(Undefined), map |-> map]

\* Map.prototype.forEach under mutation: the number of live entries already
\* passed, after the callback has turned Map m into m2.  A deleted entry that
\* was passed no longer counts, clear() leaves none, an entry that is set
\* keeps its place or is appended.
Passed(m, passed, cb, m2) ==
  IF m2 = m THEN passed
  ELSE IF cb.op = "clear" THEN 0
  ELSE IF cb.op = "delete" /\ MapIndex(m, cb.key) <= passed THEN passed - 1
  ELSE passed

\* proxy.forEach(callbackFn) on the proxy as constructed: the call starts.
ForEachStart ==
  /\ iter = NoForEach
  /\ Method("forEach")
  /\ iter' = [active |-> TRUE, pos |-> 0, calls |-> <<>>, start |-> map,
              changed |-> FALSE]
  /\ call' = [op |-> "forEach", style |-> "method"]
  /\ outcome' = [kind |-> "running"]
  /\ seen' = outcome'
  /\ before' = map
  /\ UNCHANGED <<map, config, proto, written>>

\* map.forEach invokes callbackFn(value, key, getProxy()) on the next entry;
\* the callback does cb, and either catches what cb throws or lets it escape,
\* which ends the forEach.
ForEachVisit(cb, catches) ==
  /\ iter.active
  /\ iter.pos < Len(map)
  /\ Len(iter.calls) < MaxVisits
  /\ LET entry == map[iter.pos + 1]
         third == ForEachThird
         did == Through(third, cb)
         escapes == did.outcome.kind = "throw" /\ ~catches
     IN  /\ map' = did.map
         /\ iter' = [active |-> ~escapes,
                     pos |-> Passed(map, iter.pos + 1, cb, did.map),
                     calls |-> Append(iter.calls,
                                 [value |-> entry.value, key |-> entry.key,
                                  third |-> third]),
                     start |-> iter.start,
                     changed |-> iter.changed \/ did.map # map]
         /\ call' = [op |-> "callback", style |-> "method", cb |-> cb,
                     escapes |-> escapes]
         /\ outcome' = did.outcome
         /\ seen' = outcome'
         /\ before' = map
  /\ written' = NotLogged
  /\ UNCHANGED <<config, proto>>

\* Every entry has been passed: forEach returns.
ForEachReturn ==
  /\ iter.active
  /\ iter.pos = Len(map)
  /\ iter' = [iter EXCEPT !.active = FALSE]
  /\ call' = [op |-> "forEach", style |-> "method"]
  /\ outcome' = Return(Undefined)
  /\ seen' = outcome'
  /\ before' = map
  /\ UNCHANGED <<map, config, proto, written>>

NextForEach ==
  \/ ForEachStart
  \/ \E cb \in CallbackOps, catches \in BOOLEAN : ForEachVisit(cb, catches)
  \/ ForEachReturn

SpecForEach == Init /\ [][NextForEach]_vars

----------------------------------------------------------------------------
(* Own-key enumeration: the ownKeys and getOwnPropertyDescriptor traps *)

\* typeof key
TypeOf(key) ==
  IF key \in {SymbolIterator, SymbolToStringTag} THEN "symbol"
  ELSE IF key = NumberKey THEN "number"
  ELSE "string"
IsPropertyKey(key) == TypeOf(key) = "string" \/ TypeOf(key) = "symbol"

\* [...BRIDGE_KEYS]: a Set iterates in insertion order.
BridgeKeysInOrder ==
  <<"clear", "delete", "entries", "forEach", "get", "has",
    "keys", "set", "size", "values", SymbolIterator, SymbolToStringTag>>

Array(items) == [t |-> "array", items |-> items]

\* An ownKeys trap without the filter on the type of the key.
ownKeys_unfiltered == MapKeys(map) \o BridgeKeysInOrder
\* The list the ownKeys trap returns.
ownKeys == SelectSeq(MapKeys(map) \o BridgeKeysInOrder, IsPropertyKey)

\* The getOwnPropertyDescriptor trap.
getOwnPropertyDescriptor(key) ==
  IF isBridgeKey(key) \/ MapHas(map, key)
  THEN IF doGet(key).kind = "throw" THEN doGet(key)
       ELSE Return([t |-> "descriptor", configurable |-> TRUE, enumerable |-> TRUE,
                    value |-> doGet(key).value])
  ELSE Return(Undefined)

\* The host rejects a trap result that holds a name twice.
HasDuplicates(list) ==
  \E i, j \in 1..Len(list) : i # j /\ list[i] = list[j]
OwnPropertyKeys(list) ==
  IF HasDuplicates(list)
  THEN Throw(TypeError("ownKeys",
         list[CHOOSE i \in 1..Len(list) : \E j \in 1..Len(list) : i # j /\ list[i] = list[j]]))
  ELSE Return(Array(list))

\* Object.keys keeps the string keys whose descriptor says enumerable.
IsEnumerableString(key) ==
  /\ TypeOf(key) = "string"
  /\ getOwnPropertyDescriptor(key).kind = "return"
  /\ getOwnPropertyDescriptor(key).value # Undefined
  /\ getOwnPropertyDescriptor(key).value.enumerable

\* Keys of the entries handed to createGuMap, and of the set() and delete()
\* calls, when the own keys are enumerated.
OwnKeysKeys == {"a", NumberKey, "size"}
OwnKeysIterables ==
  UNION {[1..n -> [key : OwnKeysKeys, value : Values]] : n \in 0..MaxInit}

InitOwnKeys ==
  \E iterable \in OwnKeysIterables, options \in OptionsArgs :
    /\ map = NewMap(iterable)
    /\ config = normalizeConfig(options)
    /\ call = [op |-> "createGuMap"]
    /\ outcome = Return(Undefined)
    /\ seen = Return(Undefined)
    /\ before = <<>>
    /\ proto = MapPrototype
    /\ iter = NoForEach
    /\ written = NotLogged

\* Reflect.ownKeys(proxy): outcome is what the trap returns, seen what the
\* host hands to the caller.
TrapOwnKeys ==
  /\ call' = [op |-> "ownKeys", style |-> "reflect"]
  /\ outcome' = Return(Array(ownKeys))
  /\ seen' = OwnPropertyKeys(ownKeys)
  /\ before' = map
  /\ UNCHANGED <<map, config, proto, iter, written>>

\* Object.keys(proxy)
ObjectKeys ==
  /\ call' = [op |-> "Object.keys", style |-> "reflect"]
  /\ outcome' = Return(Array(ownKeys))
  /\ seen' = IF OwnPropertyKeys(ownKeys).kind = "throw" THEN OwnPropertyKeys(ownKeys)
             ELSE Return(Array(SelectSeq(ownKeys, IsEnumerableString)))
  /\ before' = map
  /\ UNCHANGED <<map, config, proto, iter, written>>

NextOwnKeys ==
  \/ TrapOwnKeys
  \/ ObjectKeys
  \/ \E key \in OwnKeysKeys, value \in Values : CallSet(key, value)
  \/ \E key \in OwnKeysKeys : CallDelete(key)

SpecOwnKeys == InitOwnKeys /\ [][NextOwnKeys]_vars

----------------------------------------------------------------------------
(* gu-map.js: class GuMap extends Map, the constructor that returns a Proxy
   with the traps deleteProperty, set, setPrototypeOf and get *)

\* The names of the class's bridge object.
GuMap_bridge ==
  {"clear", "entries", "forEach", "get", "has", "keys", "set", "size", "values"}

\* errNonexistent = (key) => ...: a call with ('delete', key) takes 'delete'
\* for the key.
GuMap_errNonexistent(first, second) == errors_nonexistent(first)

\* throwXorReturn(err, ret), err being the parts of the message, <<>> for ''
\* and for undefined.
throwXorReturn(err, ret) == IF err # <<>> THEN Throw(Error(err)) ELSE Return(ret)

GuMap_doDelete(key) ==
  IF config.immutableMap \/ config.immutableProperties
  THEN [outcome |->
          throwXorReturn(
            IF config.throwErrorOnPropertyMutate
            THEN <<errors_base, errors_immutable, errors_prop("delete", key)>>
            ELSE <<>>,
            Bool(FALSE)),
        map |-> map]
  ELSE IF ~MapHas(map, key) /\ config.throwErrorOnNonexistentProperty
  THEN [outcome |->
          throwXorReturn(
            <<errors_base, errors_immutable, GuMap_errNonexistent("delete", key)>>,
            Bool(FALSE)),
        map |-> map]
  ELSE [outcome |-> throwXorReturn(<<>>, Bool(MapHas(map, key))),
        map |-> MapDelete(map, key)]

GuMap_doGet(key) ==
  IF key \in GuMap_bridge
  THEN throwXorReturn(<<>>, IF key = "size" THEN Num(Len(map)) ELSE Fn(key))
  ELSE IF ~MapHas(map, key) /\ config.throwErrorOnNonexistentProperty
  THEN throwXorReturn(
         <<errors_base, errors_nonexistent(key), errors_prop("get", key)>>, Bool(FALSE))
  ELSE throwXorReturn(<<>>, MapGet(map, key))

GuMap_doSet(key, value) ==
  IF \/ config.immutableMap
     \/ config.immutableProperties /\ MapHas(map, key)
     \/ key \in GuMap_bridge
  THEN [outcome |->
          throwXorReturn(
            IF config.throwErrorOnPropertyMutate
            THEN <<errors_base, errors_immutable, errors_prop("set", key)>>
            ELSE <<>>,
            Bool(FALSE)),
        map |-> map]
  ELSE [outcome |-> throwXorReturn(<<>>, [t |-> "object", class |-> "Map"]),
        map |-> MapSet(map, key, value)]

\* mapProxy[key]
GuMap_TrapGet(key) ==
  /\ call' = [op |-> "get", style |-> "property", key |-> key]
  /\ outcome' = GuMap_doGet(key)
  /\ seen' = outcome'
  /\ before' = map
  /\ UNCHANGED <<map, config, proto, iter, written>>

\* mapProxy[key] = value
GuMap_TrapSet(key, value) ==
  /\ call' = [op |-> "set", style |-> "property", key |-> key, value |-> value]
  /\ outcome' = GuMap_doSet(key, value).outcome
  /\ seen' = StrictSet(key, value, outcome')
  /\ map' = GuMap_doSet(key, value).map
  /\ before' = map
  /\ written' = NotLogged
  /\ UNCHANGED <<config, proto, iter>>

\* delete mapProxy[key]
GuMap_TrapDeleteProperty(key) ==
  /\ call' = [op |-> "delete", style |-> "property", key |-> key]
  /\ outcome' = GuMap_doDelete(key).outcome
  /\ seen' = StrictDelete(key, outcome')
  /\ map' = GuMap_doDelete(key).map
  /\ before' = map
  /\ written' = NotLogged
  /\ UNCHANGED <<config, proto, iter>>

\* mapProxy.get(key)
GuMap_CallGet(key) ==
  /\ GuMap_doGet("get") = Return(Fn("get"))
  /\ call' = [op |-> "get", style |-> "method", key |-> key]
  /\ outcome' = GuMap_doGet(key)
  /\ seen' = outcome'
  /\ before' = map
  /\ UNCHANGED <<map, config, proto, iter, written>>

\* mapProxy.set(key, value)
GuMap_CallSet(key, value) ==
  /\ GuMap_doGet("set") = Return(Fn("set"))
  /\ call' = [op |-> "set", style |-> "method", key |-> key, value |-> value]
  /\ outcome' = GuMap_doSet(key, value).outcome
  /\ seen' = outcome'
  /\ map' = GuMap_doSet(key, value).map
  /\ before' = map
  /\ written' = NotLogged
  /\ UNCHANGED <<config, proto, iter>>

\* new GuMap(iterable, config): super(iterable) and new GuMapConfig(config)
\* leave the Map and the flags that createGuMap leaves.
InitClass == Init

\* Keys of the calls on a GuMap: user keys and one name of its bridge.
ClassKeys == UserKeys \cup {"size"}

NextClass ==
  \/ \E key \in ClassKeys : GuMap_TrapGet(key)
  \/ \E key \in ClassKeys, value \in Values : GuMap_TrapSet(key, value)
  \/ \E key \in ClassKeys : GuMap_TrapDeleteProperty(key)
  \/ \E key \in ClassKeys : GuMap_CallGet(key)
  \/ \E key \in ClassKeys, value \in Values : GuMap_CallSet(key, value)

SpecClass == InitClass /\ [][NextClass]_vars

----------------------------------------------------------------------------
(* Entries whose stored value is falsy *)

\* undefined, false, 0 and "".
FalsyValues == {Undefined, Bool(FALSE), Num(0), Str("")}
\* Values stored and written when falsy values are in the container.
StoredValues == FalsyValues \cup {Num(MaxValue)}
FalsyIterables ==
  UNION {[1..n -> [key : UserKeys, value : StoredValues]] : n \in 0..MaxInit}

InitFalsy ==
  \E iterable \in FalsyIterables, options \in OptionsArgs :
    /\ map = NewMap(iterable)
    /\ config = normalizeConfig(options)
    /\ call = [op |-> "createGuMap"]
    /\ outcome = Return(Undefined)
    /\ seen = Return(Undefined)
    /\ before = <<>>
    /\ proto = MapPrototype
    /\ iter = NoForEach
    /\ written = NotLogged

NextFalsy ==
  \/ \E key \in UserKeys : TrapGet(key)
  \/ \E key \in UserKeys : CallGet(key)
  \/ \E key \in UserKeys : TrapHas(key)
  \/ \E key \in UserKeys : CallHas(key)
  \/ \E key \in UserKeys, value \in StoredValues : TrapSet(key, value)
  \/ \E key \in UserKeys, value \in StoredValues : CallSet(key, value)
  \/ \E key \in UserKeys : TrapDeleteProperty(key)
  \/ \E key \in UserKeys : CallDelete(key)

SpecFalsy == InitFalsy /\ [][NextFalsy]_vars

----------------------------------------------------------------------------
(* The error taxonomy, read off the message of the Error thrown *)

NotApplied(out) == out = Return(Bool(FALSE))
Applied(out) == out = Return(Bool(TRUE))
MutationBlockedError(out) ==
  /\ out.kind = "throw"
  /\ out.error.name = "Error"
  /\ out.error.message[2].text \in {" Map is immutable.", " Properties are immutable."}
MissingKeyError(out) ==
  /\ out.kind = "throw"
  /\ out.error.name = "Error"
  /\ out.error.message[2].text = " Property <key> does not exist."
\* A rejection per throwErrorOnPropertyMutate.
Blocked(out) ==
  IF config.throwErrorOnPropertyMutate THEN MutationBlockedError(out) ELSE NotApplied(out)
\* Size, key order and stored values are as before the call.
ContainerUnchanged ==
  /\ Len(map) = Len(before)
  /\ MapKeys(map) = MapKeys(before)
  /\ MapValues(map) = MapValues(before)

----------------------------------------------------------------------------
(* Claims *)

\* C1: with immutableMap set, a write (assignment or set()) and a remove
\* (delete operator or delete()) with any key and value leave the container's
\* size, key order and values as they were, and the call either reports
\* not-applied or raises.
C1_FullyImmutableWriteRemove ==
  (config.immutableMap /\ call.op \in {"set", "delete"}) =>
    /\ ContainerUnchanged
    /\ (NotApplied(outcome) \/ outcome.kind = "throw")

C1_Witness ==
  /\ config.immutableMap
  /\ call.op = "set"
  /\ call.key \in UserKeys
  /\ ~MapHas(before, call.key)
  /\ Len(before) > 0
  /\ NotApplied(outcome)

\* C2: clear() is blocked whenever immutableMap or immutableProperties is set
\* (the container holds the same entries after the call as before), and
\* empties the container only when both flags are false.
C2_ClearBlockedWhenImmutable ==
  call.op = "clear" =>
    IF config.immutableMap \/ config.immutableProperties
    THEN map = before
    ELSE map = <<>>

\* C3: with immutableProperties set and immutableMap not set, a write to an
\* absent non-bridge key is applied, stores the value and grows the size by
\* one; a write to a present key is rejected and leaves its value unchanged.
C3_PropertiesImmutableWrite ==
  (/\ config.immutableProperties
   /\ ~config.immutableMap
   /\ call.op = "set"
   /\ ~isBridgeKey(call.key)) =>
    IF ~MapHas(before, call.key)
    THEN /\ Applied(outcome)
         /\ MapHas(map, call.key)
         /\ MapGet(map, call.key) = call.value
         /\ Len(map) = Len(before) + 1
    ELSE /\ Blocked(outcome)
         /\ MapHas(map, call.key)
         /\ MapGet(map, call.key) = MapGet(before, call.key)

C3_Witness ==
  /\ config.immutableProperties
  /\ ~config.immutableMap
  /\ call.op = "set"
  /\ MapHas(before, call.key)
  /\ ~isBridgeKey(call.key)
  /\ call.value # MapGet(before, call.key)

\* C4: under every policy a write whose key is a bridge name is rejected
\* (raises MutationBlockedError if throwErrorOnPropertyMutate, else reports
\* not-applied) and leaves the container unchanged; a read of a bridge name
\* returns the built-in member, whatever the container holds.
\* The first two conjuncts are about the call just made; the last two apply
\* the write and the read to every bridge name in the state reached.
C4_BridgeNamesReserved ==
  /\ (call.op = "set" /\ call.key \in BRIDGE_KEYS) =>
       /\ Blocked(outcome)
       /\ ContainerUnchanged
  /\ (call.op = "get" /\ call.key \in BRIDGE_KEYS) =>
       outcome =
         Return(CASE call.key = "size" -> Num(Len(before))
                  [] call.key = SymbolToStringTag -> Str("GuMap")
                  [] OTHER -> Fn(call.key))
  /\ \A key \in BRIDGE_KEYS, value \in Values :
       /\ Blocked(doSet(key, value).outcome)
       /\ doSet(key, value).map = map
  /\ \A key \in BRIDGE_KEYS :
       /\ doGet(key).kind = "return"
       /\ doGet(key).value.t \in {"function", "number", "string"}
       /\ doGet(key).value.t = "function" => doGet(key).value.bridge = key
       /\ doGet(key).value.t = "number" => (key = "size" /\ doGet(key).value.n = Len(map))
       /\ doGet(key).value.t = "string" => key = SymbolToStringTag

C4_Witness ==
  /\ call.op = "set"
  /\ call.key = "size"
  /\ MapHas(before, "size")
  /\ call.value # MapGet(before, "size")
  /\ ~config.immutableProperties
  /\ NotApplied(outcome)

\* C5: the normalized policy satisfies immutableMap => immutableProperties
\* for every options argument, and in every state reached afterwards, as no
\* operation changes the policy.
C5_PolicyImplication ==
  /\ [](config.immutableMap => config.immutableProperties)
  /\ [][config' = config]_vars

C5_Witness ==
  /\ config.immutableMap
  /\ config.immutableProperties
  /\ call.op = "set"
  /\ MutationBlockedError(outcome)

\* C6: a read of a non-bridge key raises MissingKeyError if the key is absent
\* and throwErrorOnNonexistentProperty is set, returns undefined if the key is
\* absent and the flag is not set, and returns the stored value without
\* raising if the key is present; a read of a bridge name never raises
\* MissingKeyError.
C6_Read ==
  call.op = "get" =>
    IF isBridgeKey(call.key)
    THEN outcome.kind = "return"
    ELSE IF MapHas(before, call.key)
         THEN outcome = Return(before[MapIndex(before, call.key)].value)
         ELSE IF config.throwErrorOnNonexistentProperty
              THEN MissingKeyError(outcome)
              ELSE outcome = Return(Undefined)

C6_Witness ==
  /\ call.op = "get"
  /\ config.throwErrorOnNonexistentProperty
  /\ MapHas(before, call.key)
  /\ ~isBridgeKey(call.key)
  /\ outcome = Return(Num(1))

\* C7: a write to a non-bridge key is rejected exactly when immutableMap is
\* set, or immutableProperties is set and the key is in the container; a
\* rejected write raises MutationBlockedError iff throwErrorOnPropertyMutate
\* is set and otherwise returns false; every other write stores the value
\* and returns true.
C7_WriteDecision ==
  (call.op = "set" /\ ~isBridgeKey(call.key)) =>
    IF config.immutableMap \/ (config.immutableProperties /\ MapHas(before, call.key))
    THEN /\ config.throwErrorOnPropertyMutate <=> MutationBlockedError(outcome)
         /\ ~config.throwErrorOnPropertyMutate <=> NotApplied(outcome)
         /\ ContainerUnchanged
    ELSE /\ Applied(outcome)
         /\ MapHas(map, call.key)
         /\ MapGet(map, call.key) = call.value

C7_Witness ==
  /\ call.op = "set"
  /\ ~isBridgeKey(call.key)
  /\ ~config.immutableProperties
  /\ MapHas(before, call.key)
  /\ call.value # MapGet(before, call.key)
  /\ Applied(outcome)

\* C8: under immutableMap or immutableProperties a remove is rejected for a
\* present and for an absent key alike: it raises MutationBlockedError if
\* throwErrorOnPropertyMutate is set and otherwise returns false, and it
\* never raises MissingKeyError, even for an absent key with
\* throwErrorOnNonexistentProperty set.
C8_RemoveBlocked ==
  (call.op = "delete" /\ (config.immutableMap \/ config.immutableProperties)) =>
    /\ Blocked(outcome)
    /\ ~MissingKeyError(outcome)
    /\ ContainerUnchanged

C8_Witness ==
  /\ call.op = "delete"
  /\ config.immutableProperties
  /\ config.throwErrorOnNonexistentProperty
  /\ config.throwErrorOnPropertyMutate
  /\ ~MapHas(before, call.key)
  /\ MutationBlockedError(outcome)

\* C9: with neither immutability flag set, a remove of an absent key raises
\* MissingKeyError if throwErrorOnNonexistentProperty is set (container
\* unchanged) and otherwise returns false; a remove of a present key deletes
\* that entry alone, keeps the other entries and their order, shrinks the
\* size by one and returns true.
C9_RemoveMutable ==
  (call.op = "delete" /\ ~config.immutableMap /\ ~config.immutableProperties) =>
    IF ~MapHas(before, call.key)
    THEN /\ IF config.throwErrorOnNonexistentProperty
            THEN MissingKeyError(outcome)
            ELSE NotApplied(outcome)
         /\ ContainerUnchanged
    ELSE /\ Applied(outcome)
         /\ map = SelectSeq(before, LAMBDA e : e.key # call.key)
         /\ Len(map) = Len(before) - 1

C9_Witness ==
  /\ call.op = "delete"
  /\ ~config.immutableProperties
  /\ Len(before) = 3
  /\ before[2].key = call.key
  /\ Applied(outcome)

\* C10: exists(key), through the in operator and through has(key), returns
\* true if key is a bridge name or the container holds key, and false
\* otherwise, and never raises.
C10_Exists ==
  call.op = "has" =>
    outcome = Return(Bool(isBridgeKey(call.key) \/ MapHas(before, call.key)))

\* C12: read and exists never change the container, for any key (bridge name
\* or not, present or absent) and any policy, the calls that raise
\* MissingKeyError included: size, keys, values and order are as before.
C12_ReadExistsFrame ==
  call.op \in {"get", "has"} => ContainerUnchanged

C12_Witness ==
  /\ call.op = "get"
  /\ MissingKeyError(outcome)
  /\ Len(before) = 2
  /\ map = before

\* C13: every write, remove or clear that is rejected (raises, or returns
\* not-applied) leaves the container exactly as it was before the call.
C13_AtomicReject ==
  (/\ call.op \in {"set", "delete", "clear"}
   /\ (outcome.kind = "throw" \/ NotApplied(outcome))) =>
    ContainerUnchanged

C13_Witness ==
  /\ call.op = "delete"
  /\ MutationBlockedError(outcome)
  /\ MapHas(before, call.key)
  /\ Len(before) = 2

\* C14: in strict-mode code, when the set or deleteProperty trap reports
\* false (a blocked assignment or delete with throwErrorOnPropertyMutate
\* false, or a delete of an absent key on a mutable map with
\* throwErrorOnNonexistentProperty false) the caller sees a TypeError and the
\* container is unchanged; the same operation through set() or delete()
\* returns false without raising.
C14_StrictModeTypeError ==
  LET silent == ~config.throwErrorOnPropertyMutate
      blockedSet ==
        /\ call.op = "set"
        /\ silent
        /\ \/ isBridgeKey(call.key)
           \/ config.immutableMap
           \/ (config.immutableProperties /\ MapHas(before, call.key))
      blockedDelete ==
        /\ call.op = "delete"
        /\ silent
        /\ (config.immutableMap \/ config.immutableProperties)
      absentDelete ==
        /\ call.op = "delete"
        /\ ~config.immutableMap
        /\ ~config.immutableProperties
        /\ ~config.throwErrorOnNonexistentProperty
        /\ ~MapHas(before, call.key)
  IN  (blockedSet \/ blockedDelete \/ absentDelete) =>
        /\ ContainerUnchanged
        /\ IF call.style = "property"
           THEN seen.kind = "throw" /\ seen.error.name = "TypeError"
           ELSE seen = Return(Bool(FALSE))

C14_Witness ==
  /\ call.op = "set"
  /\ call.style = "property"
  /\ config.immutableProperties
  /\ ~config.immutableMap
  /\ MapHas(before, call.key)
  /\ seen.kind = "throw"
  /\ seen.error.name = "TypeError"

ImmutableStructureError(out) ==
  /\ out.kind = "throw"
  /\ out.error.name = "Error"
  /\ out.error.message = <<errors_base, [text |-> " The prototype cannot be changed."]>>

C15_ChangePrototype ==
  [][call'.op = "setPrototypeOf" =>
       /\ ImmutableStructureError(outcome')
       /\ map' = map
       /\ config' = config
       /\ proto' = proto
       /\ proto' = MapPrototype]_vars

C15_Witness ==
  /\ call.op = "setPrototypeOf"
  /\ ~config.throwErrorOnPropertyMutate
  /\ ~config.immutableProperties
  /\ ImmutableStructureError(outcome)
  /\ Len(map) = 2

\* C17: entries(), keys(), values() and the default iterator each yield, in
\* insertion order, the container's contents at call time: entries() and the
\* default iterator the [key, value] pairs, keys() their first and values()
\* their second components; the length is the size; a further call starts
\* again from the first entry.
C17_Iterators ==
  LET pairs == [i \in 1..Len(before) |-> <<before[i].key, before[i].value>>]
  IN  /\ call.op \in {"entries", SymbolIterator} =>
           outcome = Return([t |-> "iterator", yields |-> pairs])
      /\ call.op = "keys" =>
           /\ outcome.kind = "return"
           /\ Len(outcome.value.yields) = Len(pairs)
           /\ \A i \in 1..Len(pairs) : outcome.value.yields[i] = pairs[i][1]
      /\ call.op = "values" =>
           /\ outcome.kind = "return"
           /\ Len(outcome.value.yields) = Len(pairs)
           /\ \A i \in 1..Len(pairs) : outcome.value.yields[i] = pairs[i][2]
      /\ call.op \in {"entries", "keys", "values", SymbolIterator} =>
           /\ doGet("size") = Return(Num(Len(outcome.value.yields)))
           /\ ContainerUnchanged
      \* A call made now starts from the first entry of the container as it is.
      /\ bridge_entries.value.yields = MapEntries(map)
      /\ bridge_iterator = bridge_entries
      /\ Len(bridge_keys.value.yields) = Len(map)
      /\ Len(bridge_values.value.yields) = Len(map)

C17_Witness ==
  /\ call.op = SymbolIterator
  /\ Len(before) = 3
  /\ outcome.value.yields[1][1] = "size"
  /\ outcome.value.yields[3][1] = "a"

\* C11: starting from an empty proxy, after any sequence of writes that were
\* all accepted, a read of every written key returns the value of the last
\* write to that key, and the size is the number of distinct keys written.
LoggedKeys == {written.log[i].key : i \in 1..Len(written.log)}
LastWritten(key) ==
  LET last == CHOOSE i \in 1..Len(written.log) :
                /\ written.log[i].key = key
                /\ \A j \in (i + 1)..Len(written.log) : written.log[j].key # key
  IN  written.log[last].value

C11_RoundTrip ==
  written.logged =>
    /\ \A key \in LoggedKeys :
         /\ doGet(key) = Return(LastWritten(key))
         /\ bridge_get(key) = Return(LastWritten(key))
         /\ (call.op = "get" /\ call.key = key) => outcome = Return(LastWritten(key))
    /\ Len(map) = Cardinality(LoggedKeys)
    /\ doGet("size") = Return(Num(Cardinality(LoggedKeys)))

C11_Witness ==
  /\ written.logged
  /\ Len(written.log) = 3
  /\ written.log[1].key = written.log[3].key
  /\ written.log[1].value # written.log[3].value
  /\ call.op = "get"
  /\ call.key = written.log[1].key
  /\ outcome = Return(written.log[3].value)
  /\ Len(map) = 2

\* C16: forEach invokes the callback with (value, key, proxy) once for each
\* entry, in insertion order: while no callback has changed the container the
\* invocations made so far are its first entries in order, and when forEach
\* returns they are all its entries.  The third argument is always the proxy,
\* never the internal Map, so a set, delete or clear that a callback makes
\* through it is decided as a direct call is: a set is rejected for a bridge
\* name, under immutableMap, and for an existing key under
\* immutableProperties, and is applied otherwise; a delete is rejected under
\* either immutability flag; a rejection leaves the container as it was and
\* throws or returns false per throwErrorOnPropertyMutate.
C16_ForEach ==
  /\ \A i \in 1..Len(iter.calls) : iter.calls[i].third = "proxy"
  /\ (iter # NoForEach /\ ~iter.changed) =>
       /\ Len(iter.calls) <= Len(map)
       /\ \A i \in 1..Len(iter.calls) :
            /\ iter.calls[i].key = map[i].key
            /\ iter.calls[i].value = map[i].value
       /\ (call.op = "forEach" /\ outcome = Return(Undefined)) =>
            Len(iter.calls) = Len(map)
  /\ (call.op = "callback" /\ call.cb.op = "set") =>
       IF \/ isBridgeKey(call.cb.key)
          \/ config.immutableMap
          \/ config.immutableProperties /\ MapHas(before, call.cb.key)
       THEN ContainerUnchanged /\ Blocked(outcome)
       ELSE Applied(outcome) /\ map = MapSet(before, call.cb.key, call.cb.value)
  /\ (call.op = "callback" /\ call.cb.op = "delete") =>
       IF config.immutableMap \/ config.immutableProperties
       THEN ContainerUnchanged /\ Blocked(outcome)
       ELSE \/ MissingKeyError(outcome) /\ ContainerUnchanged
            \/ /\ outcome = Return(Bool(MapHas(before, call.cb.key)))
               /\ map = MapDelete(before, call.cb.key)
  /\ (call.op = "callback" /\ call.cb.op = "clear") =>
       /\ outcome = bridge_clear.outcome
       /\ map = bridge_clear.map
  /\ (call.op = "callback" /\ call.escapes) => ~iter.active

\* A callback writes to an existing key under immutableProperties through its
\* third argument: the write is rejected with an error, which the callback
\* catches, and forEach has gone on to the second entry.
C16_Witness ==
  /\ call.op = "callback"
  /\ call.cb.op = "set"
  /\ config.immutableProperties
  /\ ~config.immutableMap
  /\ MapHas(before, call.cb.key)
  /\ ~isBridgeKey(call.cb.key)
  /\ MutationBlockedError(outcome)
  /\ iter.active
  /\ Len(iter.calls) = 2
  /\ iter.calls[2].third = "proxy"
  /\ iter.calls[1].key # iter.calls[2].key

Items(list) == {list[i] : i \in 1..Len(list)}

\* C18 as stated: the list of the ownKeys trap holds every key of the
\* container and every bridge name, and nothing else.
C18_OwnKeysUnion ==
  call.op \in {"ownKeys", "Object.keys"} =>
    Items(outcome.value.items) = Items(MapKeys(before)) \cup BRIDGE_KEYS

\* C18, amended: the list of the ownKeys trap holds the keys of the container
\* that are strings or symbols, in insertion order, followed by the bridge
\* names, and nothing else; a key of another type (the number 1) is left out.
\* The enumeration leaves the container as it was.
C18_OwnKeys ==
  call.op \in {"ownKeys", "Object.keys"} =>
    /\ outcome.kind = "return"
    /\ Items(outcome.value.items) =
         {key \in Items(MapKeys(before)) : TypeOf(key) \in {"string", "symbol"}}
           \cup BRIDGE_KEYS
    /\ \A i, j \in 1..Len(before) :
         (i < j /\ IsPropertyKey(before[i].key) /\ IsPropertyKey(before[j].key)) =>
           \E m, n \in 1..Len(outcome.value.items) :
             /\ m < n
             /\ n <= Len(outcome.value.items) - Len(BridgeKeysInOrder)
             /\ outcome.value.items[m] = before[i].key
             /\ outcome.value.items[n] = before[j].key
    /\ \A i \in 1..Len(BridgeKeysInOrder) :
         outcome.value.items[Len(outcome.value.items) - Len(BridgeKeysInOrder) + i]
           = BridgeKeysInOrder[i]
    /\ ContainerUnchanged

\* Reflect.ownKeys on a container that holds "a" and the number 1: "a" is
\* listed, the number is not, and the host accepts the list.
C18_Witness ==
  /\ call.op = "ownKeys"
  /\ MapHas(before, NumberKey)
  /\ MapHas(before, "a")
  /\ "a" \in Items(outcome.value.items)
  /\ NumberKey \notin Items(outcome.value.items)
  /\ seen = outcome

\* C19: every Error thrown by a get, a set or a delete says which rule fired,
\* for which key and in which operation.  Either it is a mutation error of a
\* set or a delete under throwErrorOnPropertyMutate, which says "Map is
\* immutable" exactly when immutableMap is set and "Properties are immutable"
\* otherwise, and names the operation and the key of the call; or it is a
\* missing-key error of a get or a delete under
\* throwErrorOnNonexistentProperty, for a key the container did not hold,
\* which names that key and the operation.
C19_ErrorEncoding ==
  (call.op \in {"get", "set", "delete"} /\ outcome.kind = "throw") =>
    /\ outcome.error.name = "Error"
    /\ Len(outcome.error.message) = 3
    /\ outcome.error.message[1] = errors_base
    /\ outcome.error.message[3] = errors_prop(call.op, call.key)
    /\ \/ /\ call.op \in {"set", "delete"}
          /\ config.throwErrorOnPropertyMutate
          /\ outcome.error.message[2] =
               [text |-> IF config.immutableMap THEN " Map is immutable."
                         ELSE " Properties are immutable."]
       \/ /\ call.op \in {"get", "delete"}
          /\ config.throwErrorOnNonexistentProperty
          /\ ~MapHas(before, call.key)
          /\ outcome.error.message[2] = errors_nonexistent(call.key)

\* C21: with throwErrorOnPropertyMutate and throwErrorOnNonexistentProperty
\* both false, a method-style get, set, has or delete never throws, whatever
\* the immutability flags and the key: a rejected set or delete returns false
\* and leaves the container as it was, and a get of a key that is neither a
\* bridge name nor in the container returns undefined.
C21_NoRaiseWithFlagsOff ==
  (/\ call.op \in {"get", "set", "has", "delete"}
   /\ call.style = "method"
   /\ ~config.throwErrorOnPropertyMutate
   /\ ~config.throwErrorOnNonexistentProperty) =>
    /\ outcome.kind = "return"
    /\ seen.kind = "return"
    /\ (/\ call.op = "set"
        /\ \/ isBridgeKey(call.key)
           \/ config.immutableMap
           \/ config.immutableProperties /\ MapHas(before, call.key)) =>
         NotApplied(outcome) /\ ContainerUnchanged
    /\ (call.op = "delete" /\ (config.immutableMap \/ config.immutableProperties)) =>
         NotApplied(outcome) /\ ContainerUnchanged
    /\ (call.op = "get" /\ ~isBridgeKey(call.key) /\ ~MapHas(before, call.key)) =>
         outcome = Return(Undefined)

\* delete() of an existing key on an immutable map with both flags off:
\* false is returned and the entry stays.
C21_Witness ==
  /\ call.op = "delete"
  /\ call.style = "method"
  /\ ~config.throwErrorOnPropertyMutate
  /\ ~config.throwErrorOnNonexistentProperty
  /\ config.immutableMap
  /\ MapHas(before, call.key)
  /\ MapHas(map, call.key)
  /\ outcome = Return(Bool(FALSE))

\* C22: with immutableProperties set, every entry the container held before a
\* call (a write, a remove, a clear, a read, an exists test) is still there
\* after it with the same value, so the key set only grows.
C22_WriteOnceStability ==
  config.immutableProperties =>
    \A i \in 1..Len(before) :
      /\ MapHas(map, before[i].key)
      /\ MapGet(map, before[i].key) = before[i].value

\* C23: no key held by the container is a bridge name, so every entry that
\* size, keys(), entries() and has() count or report is read back by a get of
\* its key.
C23_NoBridgeNameHeld ==
  \A i \in 1..Len(map) :
    /\ ~isBridgeKey(map[i].key)
    /\ doGet(map[i].key) = Return(map[i].value)

\* C24: the list the ownKeys trap returns holds no name twice, so the host
\* hands it to the caller of Reflect.ownKeys or Object.keys instead of
\* throwing a TypeError, also for a container whose initial entries hold a
\* bridge name.
C24_OwnKeysNoDuplicates ==
  call.op \in {"ownKeys", "Object.keys"} =>
    /\ ~HasDuplicates(outcome.value.items)
    /\ seen.kind = "return"

\* C25: presence is membership of the key.  For a key that is no bridge name
\* and is in the container with a falsy value (undefined, false, 0, ""): a
\* get returns that value and throws nothing, also with
\* throwErrorOnNonexistentProperty set; has returns true; a set under
\* immutableProperties is rejected and the value stays; a delete on a map
\* with no immutability flag returns true and removes the entry.
C25_PresenceIsMembership ==
  (/\ call.op \in {"get", "has", "set", "delete"}
   /\ ~isBridgeKey(call.key)
   /\ MapHas(before, call.key)
   /\ MapGet(before, call.key) \in FalsyValues) =>
    /\ call.op = "get" =>
         /\ outcome = Return(MapGet(before, call.key))
         /\ seen = outcome
    /\ call.op = "has" => outcome = Return(Bool(TRUE))
    /\ (call.op = "set" /\ config.immutableProperties) =>
         /\ Blocked(outcome)
         /\ ContainerUnchanged
         /\ MapGet(map, call.key) = MapGet(before, call.key)
    /\ (call.op = "delete" /\ ~config.immutableMap /\ ~config.immutableProperties) =>
         /\ outcome = Return(Bool(TRUE))
         /\ seen = outcome
         /\ ~MapHas(map, call.key)
         /\ Len(map) = Len(before) - 1

\* A get of a key stored with the value 0 under
\* throwErrorOnNonexistentProperty returns 0.
C25_Witness ==
  /\ call.op = "get"
  /\ config.throwErrorOnNonexistentProperty
  /\ MapHas(before, call.key)
  /\ MapGet(before, call.key) = Num(0)
  /\ outcome = Return(Num(0))

====
